---- MODULE Spec2Model ----
(***************************************************************************)
(* Model of aio_insight/aio_api_client.py: the token-bucket RateLimiter,   *)
(* the GET cache of AsyncAtlasRestAPI and the request path of              *)
(* RateLimitedAsyncAtlassianRestAPI, run by asyncio tasks.                 *)
(*                                                                         *)
(* Scheduling.  asyncio is cooperative: a task runs without interruption   *)
(* from one await that really suspends to the next.  Every action below is *)
(* one such uninterrupted block.  The suspension points are asyncio.sleep  *)
(* (line 32), self._session.request (line 229) and self._session.aclose    *)
(* (line 124); acquiring the never-contended cache_lock does not suspend.  *)
(*                                                                         *)
(* Units.  The limiter computes on floats.  The model is exact on          *)
(* rationals by scaling: the clock `now` counts ticks of 1/capacity second *)
(* and `tokens` counts 1/interval of a token, so that                      *)
(*    tokens += elapsed * (capacity / interval)   is   tokens += elapsed   *)
(*    tokens < 1                                  is   tokens < interval   *)
(*    (1 - tokens) * (interval / capacity)        is   interval - tokens   *)
(*    tokens -= 1                                 is   tokens -= interval  *)
(* Floating-point rounding is not modelled.                                *)
(*                                                                         *)
(* Two specifications share the limiter's definitions: SpecRL runs tasks   *)
(* that call get_token() directly; Spec runs tasks that call get, post,    *)
(* put, patch, delete and close on one client.  Two more run one caller    *)
(* whose operations are whole, from call to return: SpecHandling gives it  *)
(* every kind of response, SpecKeys every path and params dict.            *)
(***************************************************************************)
EXTENDS Integers, Sequences, FiniteSets, TLC

\* ------------------------------------------------------------------ bounds
NumTasks == 2        \* tasks of SpecRL
MaxCapacity == 2
MaxInterval == 2
MaxTime == 2         \* SpecRL starts no call after this instant
MaxCalls == 3        \* get_token() calls in one behaviour of SpecRL
NumCallers == 2      \* tasks of Spec
MaxOps == 2          \* operations started in one behaviour of Spec
MaxEarly == 1        \* the clock of Spec takes the instants 0..MaxEarly
MaxWhole == 1        \* whole operations in one behaviour of SpecHandling
MaxGets == 2         \* get() calls in one behaviour of SpecKeys
MaxErrors == 2       \* elements of an "errors" list in SpecErrors
MaxFlags == 2        \* flags of one request() in SpecUrl
MaxParams == 2       \* params of one request() in SpecUrl
MaxRecords == 3      \* object-type records of one input list in SpecGraph
MaxPosition == 1     \* largest position of a record in SpecGraph
MaxCacheGets == 2    \* get() calls in one behaviour of SpecCache

Tasks == 1..NumTasks
Callers == 1..NumCallers

VARIABLES
    now,            \* time.monotonic(), in ticks of 1/capacity second
    capacity,       \* RateLimiter.capacity
    interval,       \* RateLimiter.interval
    tokens,         \* RateLimiter.tokens, in units of 1/interval token
    last_check,     \* RateLimiter.last_check
    pc,             \* where each task is suspended ("idle": not in a call)
    wake,           \* deadline of the asyncio.sleep each task is suspended in
    calls,          \* history: one record per get_token() call, in call order
    callOf,         \* history: index in calls of the call each task is in
    rate_limiter,   \* the client has a rate limiter (self.rate_limiter)
    advanced_mode,  \* self.advanced_mode
    cache,          \* self.cache
    cache_lock,     \* self.cache_lock is held
    session_closed, \* self._session was closed
    op,             \* the arguments of the operation each task is in
    debited,        \* history: tokens debited by each task's current operation
    sends,          \* history: calls of line 229 by each task's current operation
    close_returned, \* history: a close() has returned
    started,        \* history: the number of operations started
    ev,             \* history: the block that ran last, and what it returned
    http_error_kw,  \* the installed httpx.HTTPError takes the keyword `response`
    done,           \* history: the last whole operation of a sequential caller
    config,         \* the client's url, api_root, headers and bound credentials
    builder         \* the SchemaBuilder of graph_builder.py and its traversal

limiterVars == <<capacity, interval, tokens, last_check>>
historyRL == <<calls, callOf>>
setupVars == <<config, builder>>
handlingVars == <<http_error_kw, done, setupVars>>
clientVars == <<rate_limiter, advanced_mode, cache, cache_lock, session_closed, op,
                debited, sends, close_returned, started, ev, handlingVars>>
vars == <<now, capacity, interval, tokens, last_check, pc, wake, calls, callOf,
          rate_limiter, advanced_mode, cache, cache_lock, session_closed, op,
          debited, sends, close_returned, started, ev, http_error_kw, done,
          config, builder>>

Min(a, b) == IF a < b THEN a ELSE b

\* --------------------------------------------------------------- RateLimiter
\* One whole token, in the unit of `tokens`.
OneToken == interval

\* The clock ticks this many times per second.
TicksPerSecond == IF capacity > 0 THEN capacity ELSE 1

\* Lines 24-28: refill by the time elapsed since last_check, clamp to capacity.
Refill(tok, last, t) == Min(tok + (t - last), capacity * OneToken)

\* Line 30: the wait decision.
MustWait(tok) == tok < OneToken

\* Sleeps a whole interval per missing token instead of interval / capacity.
SleepTimeWholeInterval(tok) == (OneToken - tok) * capacity

\* Line 31: sleep_time = (1 - tokens) * (interval / capacity), in ticks.
SleepTime(tok) == OneToken - tok

\* Debits in the sleeping branch and once more after the if.
DebitTwice(tok) == tok - 2 * OneToken

\* Lines 33 and 35: tokens -= 1.
Debit(tok) == tok - OneToken

\* Lines 27 and 31 divide by interval and by capacity: ZeroDivisionError.
GetTokenRaises == interval = 0 \/ capacity = 0

\* asyncio.sleep(d) resumes the task no earlier than d after the call.
SleepOver(t) == now >= wake[t]

\* get_token() lines 24-30 decide to suspend at line 32.
Suspends == MustWait(Refill(tokens, last_check, now))

\* Sets last_check before the sleep as well.
GetTokenSuspendStamps(t) ==
    /\ tokens' = Refill(tokens, last_check, now)
    /\ wake' = [wake EXCEPT ![t] = now + SleepTime(Refill(tokens, last_check, now))]
    /\ last_check' = now

\* get_token() from line 24 to the await of line 32, when it suspends.
GetTokenSuspend(t) ==
    /\ tokens' = Refill(tokens, last_check, now)
    /\ wake' = [wake EXCEPT ![t] = now + SleepTime(Refill(tokens, last_check, now))]
    /\ UNCHANGED last_check

\* get_token() from line 24 to its return through the else branch (35, 37).
GetTokenGrant ==
    /\ tokens' = Debit(Refill(tokens, last_check, now))
    /\ last_check' = now

\* get_token() from the return of asyncio.sleep (line 32) to its return (33, 37).
GetTokenResume ==
    /\ tokens' = Debit(tokens)
    /\ last_check' = now

CallRecord(s) ==
    [start |-> s, suspensions |-> 0, sleep |-> 0, debited |-> 0,
     raised |-> FALSE, returned |-> FALSE, end |-> 0, after |-> 0]

\* ------------------------------------------------------------------- client
cache_expiry_time == 300

\* The cache window in ticks.
Expiry == cache_expiry_time * TicksPerSecond

\* The cache keys of line 269: (path, frozenset(params.items())) pairs.
Keys == {"k1", "k2"}

\* Parsed JSON documents.
Payloads == {"A", "B"}

NoEntry == [payload |-> "none", stored_at |-> -1]
\* Stores the payload while the timestamp is still missing.
EntryWithoutTimestamp(v, ts) == [payload |-> v, stored_at |-> -1]

Entry(v, ts) == [payload |-> v, stored_at |-> ts]

JsonUtf8 == "application/json;charset=UTF-8"
Statuses == {200, 401, 500}
ContentTypes == {JsonUtf8, "text/html"}

\* Response bodies: nothing, text that is not JSON, or a JSON document.
Bodies == {"empty", "text"} \cup Payloads

\* JSON that is no object with the service's error fields, such as a list:
\* response.json() parses it, j.get or j.items (lines 172-174) raises on it.
NonObjects == {"[1]"}

\* response.json() returns for this body (lines 132, 170, 299).
ParsesAsJson(body) == body \in Payloads \cup NonObjects

\* The responses of the transport.  The Content-Type is read for a 401 only
\* (line 165), so the other statuses come with one Content-Type.
Responses ==
    {r \in [status : Statuses, ctype : ContentTypes, body : Bodies] :
        r.status = 401 \/ r.ctype = JsonUtf8}

\* httpx.RequestError raised by self._session.request.
TransportFailure == [status |-> 0, ctype |-> "none", body |-> "none"]

Verbs == {"GET", "POST", "PUT", "PATCH", "DELETE"}

NoOp == [verb |-> "none", key |-> "none", use_cache |-> FALSE, advanced |-> FALSE,
         not_json |-> FALSE]
NoResult == [kind |-> "none", val |-> "none", status |-> 0]
Pending == [kind |-> "pending", val |-> "none", status |-> 0]

\* The record of one block: the step it was, the operation it belongs to,
\* what the operation returned if the block ended it, the block's cache access
\* and whether cache_lock was held for it, and the operation's token debit and
\* count of line-229 calls so far.
Block(what, o, r, access, locked, deb, snd) ==
    [step |-> what, op |-> o, result |-> r, access |-> access,
     locked |-> locked, debited |-> deb, sends |-> snd]
NoBlock(what) == Block(what, NoOp, NoResult, "none", FALSE, 0, 0)

\* The record of one whole operation of a caller that runs alone: its
\* arguments, the response of the transport, what it returned, whether it was
\* served from the cache, whether it stored its result, and the record of the
\* operation before it.
Operation(o, out, r, hit, wrote, before) ==
    [op |-> o, response |-> out, result |-> r, hit |-> hit, wrote |-> wrote,
     prev |-> before]
\* No response: the operation made no transport call.
NoResponse == [status |-> 0, ctype |-> "none", body |-> "unused"]
NoOperation == Operation(NoOp, NoResponse, NoResult, FALSE, FALSE, "none")

\* The host whose error bodies line 171 reads differently.
AtlassianUrl == "https://api.atlassian.com"
Urls == {AtlassianUrl, "https://jira.example.com"}

\* A client built on another host, with no credentials: url and api_root
\* (lines 69, 74), default_headers (lines 41-44), cloud (line 78), what the
\* constructor bound to the transport (lines 95-106), and how far construction
\* and initialize() got.
DefaultConfig ==
    [url |-> "https://jira.example.com", api_root |-> "rest/api",
     default_headers |-> {"Content-Type", "Accept"}, cloud |-> FALSE,
     auth |-> "none", bearer |-> FALSE, jar |-> FALSE, handed |-> {},
     phase |-> "constructed", gets |-> 0, cls |-> "AsyncAtlasRestAPI",
     args |-> {}, cloud_arg |-> FALSE, workspace |-> "none"]

\* No SchemaBuilder was made.
NoBuilder == [pc |-> "none"]

\* ------------------------------------------------------- SpecRL: the limiter
\* RateLimiter.__init__ (lines 17-21) at time 0; no client.
InitRL ==
    /\ now = 0
    /\ capacity \in 0..MaxCapacity
    /\ interval \in 0..MaxInterval
    /\ tokens = capacity * interval
    /\ last_check = 0
    /\ pc = [t \in Tasks |-> "idle"]
    /\ wake = [t \in Tasks |-> 0]
    /\ calls = <<>>
    /\ callOf = [t \in Tasks |-> 0]
    /\ rate_limiter = TRUE
    /\ advanced_mode = FALSE
    /\ cache = [k \in Keys |-> NoEntry]
    /\ cache_lock = FALSE
    /\ session_closed = FALSE
    /\ op = [t \in Tasks |-> NoOp]
    /\ debited = [t \in Tasks |-> 0]
    /\ sends = [t \in Tasks |-> 0]
    /\ close_returned = FALSE
    /\ started = 0
    /\ ev = NoBlock("init")
    /\ http_error_kw = FALSE
    /\ done = NoOperation
    /\ config = DefaultConfig
    /\ builder = NoBuilder

\* get_token() from its first line to its return, or to the await of line 32.
GetTokenCall(t) ==
    /\ pc[t] = "idle"
    /\ Len(calls) < MaxCalls
    /\ now <= MaxTime
    /\ LET refilled == Refill(tokens, last_check, now)
           rec == CallRecord(now)
       IN  IF GetTokenRaises
           THEN /\ calls' = Append(calls, [rec EXCEPT !.raised = TRUE, !.end = now,
                                                      !.after = tokens])
                /\ UNCHANGED <<tokens, last_check, pc, wake>>
           ELSE IF Suspends
           THEN /\ GetTokenSuspend(t)
                /\ pc' = [pc EXCEPT ![t] = "sleeping"]
                /\ calls' = Append(calls, [rec EXCEPT !.suspensions = 1,
                                                      !.sleep = wake'[t] - now])
           ELSE /\ GetTokenGrant
                /\ calls' = Append(calls, [rec EXCEPT !.debited = refilled - tokens',
                                                      !.returned = TRUE,
                                                      !.end = now,
                                                      !.after = tokens'])
                /\ UNCHANGED <<pc, wake>>
    /\ callOf' = [callOf EXCEPT ![t] = Len(calls) + 1]
    /\ UNCHANGED <<now, capacity, interval, clientVars>>

\* get_token() from the return of asyncio.sleep (line 32) to its return.
GetTokenWake(t) ==
    /\ pc[t] = "sleeping"
    /\ SleepOver(t)
    /\ GetTokenResume
    /\ pc' = [pc EXCEPT ![t] = "idle"]
    /\ calls' = [calls EXCEPT ![callOf[t]] =
                    [@ EXCEPT !.debited = @ + (tokens - tokens'),
                              !.returned = TRUE, !.end = now,
                              !.after = tokens']]
    /\ UNCHANGED <<now, capacity, interval, wake, callOf, clientVars>>

\* Time passes.  It may always pass while a sleeper's deadline is ahead.
Tick ==
    /\ \/ now < MaxTime
       \/ \E t \in Tasks : pc[t] = "sleeping" /\ wake[t] > now
    /\ now' = now + 1
    /\ UNCHANGED <<limiterVars, pc, wake, historyRL, clientVars>>

NextRL ==
    \/ \E t \in Tasks : GetTokenCall(t)
    \/ \E t \in Tasks : GetTokenWake(t)
    \/ Tick

SpecRL == InitRL /\ [][NextRL]_vars

\* The event loop runs every task that is ready, and the clock advances.
FairSpecRL ==
    SpecRL /\ WF_vars(Tick) /\ \A t \in Tasks : WF_vars(GetTokenWake(t))

\* --------------------------------------------------------- Spec: the client
\* Raises the message-carrying error for every 4xx/5xx body.
RaiseForStatusAlwaysMessage(resp) ==
    IF resp.status = 401 /\ resp.ctype # JsonUtf8
    THEN IF http_error_kw THEN "Unauthorized" ELSE "TypeError"
    ELSE IF 400 <= resp.status /\ resp.status < 600
         THEN "HTTPError"
         ELSE "ok"

\* Logs the failure to read the error body and returns, without line 183.
RaiseForStatusForgiving(resp) ==
    IF resp.status = 401 /\ resp.ctype # JsonUtf8
    THEN IF http_error_kw THEN "Unauthorized" ELSE "TypeError"
    ELSE IF 400 <= resp.status /\ resp.status < 600 /\ resp.body \in Payloads
         THEN "HTTPError"
         ELSE "ok"

\* raise_for_status (lines 164-186): the error it raises, "ok" when it returns.
\* Line 166 builds HTTPError("Unauthorized (401)", response=response).  The
\* HTTPError of httpx 0.14 and later takes no keyword `response`, and the call
\* raises TypeError; an HTTPError that takes it is raised with that message.
\* Lines 170-180 raise inside the try for a body that is no JSON object, and
\* response.raise_for_status() (line 183) raises HTTPStatusError.
RaiseForStatus(resp) ==
    IF resp.status = 401 /\ resp.ctype # JsonUtf8
    THEN IF http_error_kw THEN "Unauthorized" ELSE "TypeError"
    ELSE IF 400 <= resp.status /\ resp.status < 600
         THEN IF resp.body \in Payloads THEN "HTTPError" ELSE "HTTPStatusError"
         ELSE "ok"

Raised(what) == [kind |-> "raised", val |-> what, status |-> 0]

\* Interprets the status code before the advanced-mode test.
RequestResultChecksFirst(out, adv) ==
    IF out = TransportFailure
    THEN Raised("RequestError")
    ELSE IF RaiseForStatus(out) # "ok"
         THEN Raised(RaiseForStatus(out))
         ELSE IF advanced_mode \/ adv
              THEN [kind |-> "raw", val |-> "response", status |-> out.status]
              ELSE [kind |-> "response", val |-> out.body, status |-> out.status]

\* AsyncAtlasRestAPI.request from the return of line 229 (lines 237-253).
RequestResult(out, adv) ==
    IF out = TransportFailure
    THEN Raised("RequestError")
    ELSE IF advanced_mode \/ adv
         THEN [kind |-> "raw", val |-> "response", status |-> out.status]
         ELSE IF RaiseForStatus(out) # "ok"
              THEN Raised(RaiseForStatus(out))
              ELSE [kind |-> "response", val |-> out.body, status |-> out.status]

\* Lets the failure of response.json() out instead of returning the text.
GetResultStrict(o, out) ==
    LET r == RequestResult(out, o.advanced)
    IN  IF r.kind # "response" THEN r
        ELSE IF o.not_json THEN [r EXCEPT !.kind = "bytes"]
        ELSE IF out.body = "empty" THEN [kind |-> "null", val |-> "none", status |-> 0]
        ELSE IF ParsesAsJson(out.body)
             THEN [kind |-> "json", val |-> out.body, status |-> 0]
             ELSE Raised("JSONDecodeError")

\* get() from the return of self.request (lines 290-306).
GetResult(o, out) ==
    LET r == RequestResult(out, o.advanced)
    IN  IF r.kind # "response" THEN r
        ELSE IF o.not_json THEN [r EXCEPT !.kind = "bytes"]
        ELSE IF out.body = "empty" THEN [kind |-> "null", val |-> "none", status |-> 0]
        ELSE IF ParsesAsJson(out.body)
             THEN [kind |-> "json", val |-> out.body, status |-> 0]
             ELSE [kind |-> "text", val |-> out.body, status |-> 0]

\* Stores every parsed response, whatever use_cache says.
GetWritesAlways(o, out) == GetResult(o, out).kind = "json"

\* Stores the raw bytes of a not_json_response call as well.
GetWritesBytes(o, out) ==
    GetResult(o, out).kind \in {"json", "bytes"} /\ o.use_cache

\* Line 300-302: get() stores the parsed response.
GetWrites(o, out) == GetResult(o, out).kind = "json" /\ o.use_cache

\* post, put, patch, delete from the return of self.request, with
\* _response_handler (lines 129-138).
VerbResult(o, out) ==
    LET r == RequestResult(out, o.advanced)
    IN  IF r.kind # "response" THEN r
        ELSE IF ParsesAsJson(out.body)
             THEN [kind |-> "json", val |-> out.body, status |-> 0]
             ELSE [kind |-> "null", val |-> "none", status |-> 0]

\* Keeps an entry whose age equals cache_expiry_time.
CacheHitInclusive(uc, e) == uc /\ e # NoEntry /\ now - e.stored_at <= Expiry

\* Lines 272-274: the entry is present and younger than cache_expiry_time.
CacheHit(uc, e) == uc /\ e # NoEntry /\ now - e.stored_at < Expiry

\* The instants the clock of Spec takes: the first ticks and the end of the
\* cache window of an entry stored at 0.
Instants == (0..MaxEarly) \cup {Expiry}

\* The constructors at time 0 (lines 17-21, 69-85, 419-421).
Init ==
    /\ now = 0
    /\ capacity = 1
    /\ interval = 1
    /\ tokens = capacity * interval
    /\ last_check = 0
    /\ pc = [t \in Callers |-> "idle"]
    /\ wake = [t \in Callers |-> 0]
    /\ calls = <<>>
    /\ callOf = [t \in Callers |-> 0]
    /\ rate_limiter \in BOOLEAN
    /\ advanced_mode \in BOOLEAN
    /\ cache = [k \in Keys |-> NoEntry]
    /\ cache_lock = FALSE
    /\ session_closed = FALSE
    /\ op = [t \in Callers |-> NoOp]
    /\ debited = [t \in Callers |-> 0]
    /\ sends = [t \in Callers |-> 0]
    /\ close_returned = FALSE
    /\ started = 0
    /\ ev = NoBlock("init")
    /\ http_error_kw = FALSE
    /\ done = NoOperation
    /\ config = DefaultConfig
    /\ builder = NoBuilder

\* The operation of task t is over: it returned or raised.
Ends(t) ==
    /\ pc' = [pc EXCEPT ![t] = "idle"]
    /\ op' = [op EXCEPT ![t] = NoOp]
    /\ debited' = [debited EXCEPT ![t] = 0]
    /\ sends' = [sends EXCEPT ![t] = 0]

\* Tests the limiter's absence instead of its presence.
LimitedInverted == ~rate_limiter

\* Line 424: if self.rate_limiter.
Limited == rate_limiter

\* RateLimitedAsyncAtlassianRestAPI.request (lines 423-426) and the request()
\* it calls (lines 202-229), up to the first await that suspends, for the
\* operation o that task t starts, whose cache access so far is `access`.
\* At line 229 a closed httpx client refuses the request.
RequestBegin(t, o, access) ==
    IF Limited /\ Suspends
    THEN /\ GetTokenSuspend(t)
         /\ pc' = [pc EXCEPT ![t] = "sleeping"]
         /\ op' = [op EXCEPT ![t] = o]
         /\ UNCHANGED <<debited, sends>>
         /\ ev' = Block("call", o, Pending, access, cache_lock, 0, 0)
    ELSE /\ IF Limited THEN GetTokenGrant ELSE UNCHANGED <<tokens, last_check>>
         /\ UNCHANGED wake
         /\ LET deb == Refill(tokens, last_check, now) - tokens'
            IN  IF session_closed
                THEN /\ UNCHANGED <<pc, op, debited, sends>>
                     /\ ev' = Block("call", o, Raised("RuntimeError"), access,
                                    cache_lock, IF Limited THEN deb ELSE 0, 1)
                ELSE /\ pc' = [pc EXCEPT ![t] = "transport"]
                     /\ op' = [op EXCEPT ![t] = o]
                     /\ debited' = [debited EXCEPT ![t] = IF Limited THEN deb ELSE 0]
                     /\ sends' = [sends EXCEPT ![t] = 1]
                     /\ ev' = Block("call", o, Pending, access, cache_lock,
                                    debited'[t], 1)

\* Takes the token before the cache lookup instead of after a miss.
GetCallTokenFirst(t, k, uc, adv, nj) ==
    /\ pc[t] = "idle"
    /\ started < MaxOps
    /\ started' = started + 1
    /\ LET o == [verb |-> "GET", key |-> k, use_cache |-> uc, advanced |-> adv,
                 not_json |-> nj]
       IN  IF CacheHit(uc, cache[k]) /\ ~(Limited /\ Suspends)
           THEN /\ IF Limited THEN GetTokenGrant ELSE UNCHANGED <<tokens, last_check>>
                /\ ev' = Block("hit", o,
                               [kind |-> "cached", val |-> cache[k].payload, status |-> 0],
                               "read", cache_lock, 0, 0)
                /\ UNCHANGED <<wake, pc, op, debited, sends>>
           ELSE RequestBegin(t, o, IF uc THEN "read" ELSE "none")
    /\ UNCHANGED <<now, capacity, interval, historyRL, handlingVars, rate_limiter,
                   advanced_mode,
                   cache, cache_lock, session_closed, close_returned>>

\* get() (lines 255-289) up to its return from the cache or to the first
\* await that suspends.
GetCall(t, k, uc, adv, nj) ==
    /\ pc[t] = "idle"
    /\ started < MaxOps
    /\ started' = started + 1
    /\ LET o == [verb |-> "GET", key |-> k, use_cache |-> uc, advanced |-> adv,
                 not_json |-> nj]
       IN  IF CacheHit(uc, cache[k])
           THEN /\ ev' = Block("hit", o,
                               [kind |-> "cached", val |-> cache[k].payload, status |-> 0],
                               "read", cache_lock, 0, 0)
                /\ UNCHANGED <<tokens, last_check, wake, pc, op, debited, sends>>
           ELSE RequestBegin(t, o, IF uc THEN "read" ELSE "none")
    /\ UNCHANGED <<now, capacity, interval, historyRL, handlingVars, rate_limiter,
                   advanced_mode,
                   cache, cache_lock, session_closed, close_returned>>

\* post, put, patch, delete (lines 308-410) up to the first await that suspends.
VerbCall(t, v, adv) ==
    /\ pc[t] = "idle"
    /\ started < MaxOps
    /\ started' = started + 1
    /\ v \in Verbs \ {"GET"}
    /\ RequestBegin(t, [NoOp EXCEPT !.verb = v, !.advanced = adv], "none")
    /\ UNCHANGED <<now, capacity, interval, historyRL, handlingVars, rate_limiter,
                   advanced_mode,
                   cache, cache_lock, session_closed, close_returned>>

\* The operation resumes from asyncio.sleep: get_token() lines 33-37, then
\* request() up to line 229, where a closed httpx client refuses the request.
TokenWake(t) ==
    /\ pc[t] = "sleeping"
    /\ SleepOver(t)
    /\ GetTokenResume
    /\ LET deb == debited[t] + (tokens - tokens')
       IN  IF session_closed
           THEN /\ Ends(t)
                /\ ev' = Block("wake", op[t], Raised("RuntimeError"), "none",
                               cache_lock, deb, sends[t] + 1)
           ELSE /\ pc' = [pc EXCEPT ![t] = "transport"]
                /\ debited' = [debited EXCEPT ![t] = deb]
                /\ sends' = [sends EXCEPT ![t] = @ + 1]
                /\ ev' = Block("wake", op[t], Pending, "none", cache_lock, deb,
                               sends'[t])
                /\ UNCHANGED op
    /\ UNCHANGED <<now, capacity, interval, wake, historyRL, handlingVars, rate_limiter,
                   advanced_mode, cache, cache_lock, session_closed, close_returned,
                   started>>

\* A verb that succeeds throws the cached GET results away.
TransportReturnPurges(t, out) ==
    /\ pc[t] = "transport"
    /\ LET o == op[t]
           writes == o.verb = "GET" /\ GetWrites(o, out)
           purges == o.verb # "GET" /\ VerbResult(o, out).kind # "raised"
       IN  /\ cache' = IF writes THEN [cache EXCEPT ![o.key] = Entry(out.body, now)]
                       ELSE IF purges THEN [k \in Keys |-> NoEntry]
                       ELSE cache
           /\ ev' = Block("return", o,
                          IF o.verb = "GET" THEN GetResult(o, out) ELSE VerbResult(o, out),
                          IF writes THEN "write" ELSE "none", cache_lock,
                          debited[t], sends[t])
    /\ Ends(t)
    /\ UNCHANGED <<started, now, limiterVars, wake, historyRL, handlingVars,
                   rate_limiter, advanced_mode, cache_lock, session_closed,
                   close_returned>>

\* Gives the token back when the operation raises.
TransportReturnRefunds(t, out) ==
    /\ pc[t] = "transport"
    /\ LET o == op[t]
           writes == o.verb = "GET" /\ GetWrites(o, out)
           r == IF o.verb = "GET" THEN GetResult(o, out) ELSE VerbResult(o, out)
       IN  /\ cache' = IF writes THEN [cache EXCEPT ![o.key] = Entry(out.body, now)]
                       ELSE cache
           /\ tokens' = IF rate_limiter /\ r.kind = "raised" THEN tokens + OneToken
                        ELSE tokens
           /\ ev' = Block("return", o, r, IF writes THEN "write" ELSE "none",
                          cache_lock, debited[t], sends[t])
    /\ Ends(t)
    /\ UNCHANGED <<started, now, capacity, interval, last_check, wake, historyRL,
                   handlingVars, rate_limiter, advanced_mode, cache_lock,
                   session_closed, close_returned>>

\* Calls the transport a second time after a transport failure.
TransportReturnRetries(t, out) ==
    /\ pc[t] = "transport"
    /\ LET o == op[t]
           writes == o.verb = "GET" /\ GetWrites(o, out)
       IN  IF out = TransportFailure /\ sends[t] < 2
           THEN /\ sends' = [sends EXCEPT ![t] = @ + 1]
                /\ ev' = Block("retry", o, Pending, "none", cache_lock, debited[t],
                               sends'[t])
                /\ UNCHANGED <<cache, pc, op, debited>>
           ELSE /\ cache' = IF writes THEN [cache EXCEPT ![o.key] = Entry(out.body, now)]
                            ELSE cache
                /\ ev' = Block("return", o,
                               IF o.verb = "GET" THEN GetResult(o, out)
                               ELSE VerbResult(o, out),
                               IF writes THEN "write" ELSE "none", cache_lock,
                               debited[t], sends[t])
                /\ Ends(t)
    /\ UNCHANGED <<started, now, limiterVars, wake, historyRL, handlingVars,
                   rate_limiter, advanced_mode, cache_lock, session_closed,
                   close_returned>>

\* The operation resumes from self._session.request with a response or a
\* transport failure and runs to its end.
TransportReturn(t, out) ==
    /\ pc[t] = "transport"
    /\ LET o == op[t]
           writes == o.verb = "GET" /\ GetWrites(o, out)
       IN  /\ cache' = IF writes THEN [cache EXCEPT ![o.key] = Entry(out.body, now)]
                       ELSE cache
           /\ ev' = Block("return", o,
                          IF o.verb = "GET" THEN GetResult(o, out) ELSE VerbResult(o, out),
                          IF writes THEN "write" ELSE "none", cache_lock,
                          debited[t], sends[t])
    /\ Ends(t)
    /\ UNCHANGED <<started, now, limiterVars, wake, historyRL, handlingVars, rate_limiter,
                   advanced_mode,
                   cache_lock, session_closed, close_returned>>

\* close() (lines 120-124) up to the await of aclose(): the lock is free, so
\* it is taken, the cache is cleared and the lock is released without
\* suspending; httpx marks the client closed when aclose() starts.
CloseCall(t) ==
    /\ pc[t] = "idle"
    /\ started < MaxOps
    /\ started' = started + 1
    /\ ~cache_lock
    /\ cache' = [k \in Keys |-> NoEntry]
    /\ cache_lock' = FALSE
    /\ session_closed' = TRUE
    /\ pc' = [pc EXCEPT ![t] = "closing"]
    /\ op' = [op EXCEPT ![t] = [NoOp EXCEPT !.verb = "close"]]
    /\ ev' = Block("close", op'[t], Pending, "clear", TRUE, 0, 0)
    /\ UNCHANGED <<now, limiterVars, wake, historyRL, handlingVars, rate_limiter,
                   advanced_mode,
                   debited, sends, close_returned>>

\* close() returns from aclose().
CloseReturn(t) ==
    /\ pc[t] = "closing"
    /\ Ends(t)
    /\ close_returned' = TRUE
    /\ ev' = Block("closed", op[t], [kind |-> "closed", val |-> "none", status |-> 0],
                   "none", cache_lock, 0, 0)
    /\ UNCHANGED <<started, now, limiterVars, wake, historyRL, handlingVars, rate_limiter,
                   advanced_mode,
                   cache, cache_lock, session_closed>>

\* Time passes.
Advance ==
    /\ \E later \in Instants : later > now /\ now' = later
    /\ ev' = NoBlock("advance")
    /\ UNCHANGED <<started, limiterVars, pc, wake, historyRL, handlingVars, rate_limiter,
                   advanced_mode,
                   cache, cache_lock, session_closed, op, debited, sends,
                   close_returned>>

Next ==
    \/ \E t \in Callers, k \in Keys, uc \in BOOLEAN, adv \in BOOLEAN, nj \in BOOLEAN :
            GetCall(t, k, uc, adv, nj)
    \/ \E t \in Callers, v \in Verbs, adv \in BOOLEAN : VerbCall(t, v, adv)
    \/ \E t \in Callers : TokenWake(t)
    \/ \E t \in Callers, out \in Responses \cup {TransportFailure} : TransportReturn(t, out)
    \/ \E t \in Callers : CloseCall(t)
    \/ \E t \in Callers : CloseReturn(t)
    \/ Advance

Spec == Init /\ [][Next]_vars

\* ------------------------------------- SpecHandling: one caller, all responses
\* The statuses around the limits of the tests of lines 165 and 168.
AllStatuses == {200, 399, 400, 401, 500, 599}

\* response.headers.get("Content-Type") (line 165); the header may be absent.
AllContentTypes == ContentTypes \cup {"absent"}

AllBodies == Bodies \cup NonObjects

\* The Content-Type is read for a 401 only (line 165: `and` evaluates its
\* second operand only when the status is 401).
AllResponses ==
    {r \in [status : AllStatuses, ctype : AllContentTypes, body : AllBodies] :
        r.status = 401 \/ r.ctype = JsonUtf8}

\* Deletes the entry that the lookup found expired.
WholeGetEvicts(o, out, before) ==
    IF CacheHit(o.use_cache, cache[o.key])
    THEN /\ done' = Operation(o, NoResponse,
                              [kind |-> "cached", val |-> cache[o.key].payload,
                               status |-> 0],
                              TRUE, FALSE, before)
         /\ UNCHANGED cache
    ELSE /\ cache' = IF GetWrites(o, out)
                     THEN [cache EXCEPT ![o.key] = Entry(out.body, now)]
                     ELSE IF o.use_cache THEN [cache EXCEPT ![o.key] = NoEntry]
                     ELSE cache
         /\ done' = Operation(o, out, GetResult(o, out), FALSE, GetWrites(o, out),
                              before)

\* Skips the lookup for a caller that asks for raw bytes.
WholeGetBytesBypass(o, out, before) ==
    IF CacheHit(o.use_cache, cache[o.key]) /\ ~o.not_json
    THEN /\ done' = Operation(o, NoResponse,
                              [kind |-> "cached", val |-> cache[o.key].payload,
                               status |-> 0],
                              TRUE, FALSE, before)
         /\ UNCHANGED cache
    ELSE /\ cache' = IF GetWrites(o, out)
                     THEN [cache EXCEPT ![o.key] = Entry(out.body, now)]
                     ELSE cache
         /\ done' = Operation(o, out, GetResult(o, out), FALSE, GetWrites(o, out),
                              before)

\* get() (lines 255-306) from its call to its return, for a task that runs
\* alone on a client without a rate limiter and whose transport call is
\* answered with `out`; `before` is the record of the operation before it.
WholeGet(o, out, before) ==
    IF CacheHit(o.use_cache, cache[o.key])
    THEN /\ done' = Operation(o, NoResponse,
                              [kind |-> "cached", val |-> cache[o.key].payload,
                               status |-> 0],
                              TRUE, FALSE, before)
         /\ UNCHANGED cache
    ELSE /\ cache' = IF GetWrites(o, out)
                     THEN [cache EXCEPT ![o.key] = Entry(out.body, now)]
                     ELSE cache
         /\ done' = Operation(o, out, GetResult(o, out), FALSE, GetWrites(o, out),
                              before)

\* post, put, patch, delete (lines 308-410) from call to return, likewise.
WholeVerb(o, out, before) ==
    /\ done' = Operation(o, out, VerbResult(o, out), FALSE, FALSE, before)
    /\ UNCHANGED cache

\* The constructors (lines 69-85, 419-421) with rate_limiter=None, under
\* either kind of httpx.
InitHandling ==
    /\ now = 0
    /\ capacity = 1
    /\ interval = 1
    /\ tokens = capacity * interval
    /\ last_check = 0
    /\ pc = [t \in Callers |-> "idle"]
    /\ wake = [t \in Callers |-> 0]
    /\ calls = <<>>
    /\ callOf = [t \in Callers |-> 0]
    /\ rate_limiter = FALSE
    /\ advanced_mode \in BOOLEAN
    /\ cache = [k \in Keys |-> NoEntry]
    /\ cache_lock = FALSE
    /\ session_closed = FALSE
    /\ op = [t \in Callers |-> NoOp]
    /\ debited = [t \in Callers |-> 0]
    /\ sends = [t \in Callers |-> 0]
    /\ close_returned = FALSE
    /\ started = 0
    /\ ev = NoBlock("init")
    /\ http_error_kw \in BOOLEAN
    /\ done = NoOperation
    /\ config = DefaultConfig
    /\ builder = NoBuilder

\* What a whole operation of the lone caller leaves alone.
wholeFrame == <<now, limiterVars, pc, wake, historyRL, rate_limiter, advanced_mode,
                cache_lock, session_closed, op, debited, sends, close_returned,
                ev, http_error_kw, setupVars>>

HandleGet(k, uc, adv, nj, out) ==
    /\ started < MaxWhole
    /\ started' = started + 1
    /\ WholeGet([verb |-> "GET", key |-> k, use_cache |-> uc, advanced |-> adv,
                 not_json |-> nj], out, "none")
    /\ UNCHANGED wholeFrame

HandleVerb(v, adv, out) ==
    /\ started < MaxWhole
    /\ started' = started + 1
    /\ v \in Verbs \ {"GET"}
    /\ WholeVerb([NoOp EXCEPT !.verb = v, !.advanced = adv], out, "none")
    /\ UNCHANGED wholeFrame

NextHandling ==
    \/ \E k \in Keys, uc \in BOOLEAN, adv \in BOOLEAN, nj \in BOOLEAN,
          out \in AllResponses \cup {TransportFailure} : HandleGet(k, uc, adv, nj, out)
    \/ \E v \in Verbs, adv \in BOOLEAN, out \in AllResponses \cup {TransportFailure} :
            HandleVerb(v, adv, out)

SpecHandling == InitHandling /\ [][NextHandling]_vars

\* ------------------------------ SpecCache: one caller, gets over time
\* The argument of get() other than path, params, use_cache, advanced_mode and
\* not_json_response that the call gives a value to, if any.  None of them is
\* read before the transport call.
OtherArguments == {"none", "flags", "headers", "data", "absolute", "trailing"}

\* One response for each way get() ends after its transport call: every body
\* with status 200, a 401 that line 165 takes for an authentication failure,
\* a 500 with and without an error message.
CacheResponses ==
    {r \in Responses :
        \/ r.status = 200
        \/ r.status = 401 /\ r.ctype # JsonUtf8 /\ r.body = "text"
        \/ r.status = 500 /\ r.body \in {"text", "A"}}

\* The constructors (lines 69-85, 419-421) with rate_limiter=None, under
\* either kind of httpx.
InitCache ==
    /\ now = 0
    /\ capacity = 1
    /\ interval = 1
    /\ tokens = capacity * interval
    /\ last_check = 0
    /\ pc = [t \in Callers |-> "idle"]
    /\ wake = [t \in Callers |-> 0]
    /\ calls = <<>>
    /\ callOf = [t \in Callers |-> 0]
    /\ rate_limiter = FALSE
    /\ advanced_mode = FALSE
    /\ cache = [k \in Keys |-> NoEntry]
    /\ cache_lock = FALSE
    /\ session_closed = FALSE
    /\ op = [t \in Callers |-> NoOp]
    /\ debited = [t \in Callers |-> 0]
    /\ sends = [t \in Callers |-> 0]
    /\ close_returned = FALSE
    /\ started = 0
    /\ ev = NoBlock("init")
    /\ http_error_kw \in BOOLEAN
    /\ done = NoOperation
    /\ config = DefaultConfig
    /\ builder = NoBuilder

\* get() from call to return at the instant now.
CacheGet(k, uc, adv, nj, other, out) ==
    /\ started < MaxCacheGets
    /\ started' = started + 1
    /\ WholeGet([verb |-> "GET", key |-> k, use_cache |-> uc, advanced |-> adv,
                 not_json |-> nj, other |-> other], out, "none")
    /\ UNCHANGED wholeFrame

\* Time passes between two calls.
AdvanceCache ==
    /\ \E later \in Instants : later > now /\ now' = later
    /\ UNCHANGED <<limiterVars, pc, wake, historyRL, clientVars>>

NextCache ==
    \/ \E k \in Keys, uc \in BOOLEAN, adv \in BOOLEAN, nj \in BOOLEAN,
          other \in OtherArguments, out \in CacheResponses \cup {TransportFailure} :
            CacheGet(k, uc, adv, nj, other, out)
    \/ AdvanceCache

SpecCache == InitCache /\ [][NextCache]_vars

\* ------------------------------- SpecKeys: one caller, paths and parameters
Paths == {"/x", "/y"}
ParamNames == {"a", "b"}
ParamValues == {1, 2}

\* The params dicts: their items in insertion order, no name twice.
Dicts ==
    {d \in UNION {[1..n -> ParamNames \X ParamValues] :
                      n \in 0..Cardinality(ParamNames)} :
        \A i, j \in DOMAIN d : d[i][1] = d[j][1] => i = j}

\* params.items() as a set.
Items(d) == {d[i] : i \in DOMAIN d}

\* Keeps the items in the order of the dict.
CacheKeyOrdered(path, params) == <<path, params>>

\* Line 269: (path, frozenset(params.items()) if params else None).  None and
\* the empty dict give the same key, written here with the empty set.
cache_key(path, params) == <<path, Items(params)>>

CacheKeys == {cache_key(p, d) : p \in Paths, d \in Dicts}

\* Responses that get() stores.
StoredResponses == {r \in Responses : r.status = 200 /\ r.body \in Payloads}

\* The constructors (lines 69-85, 419-421) with rate_limiter=None.
InitKeys ==
    /\ now = 0
    /\ capacity = 1
    /\ interval = 1
    /\ tokens = capacity * interval
    /\ last_check = 0
    /\ pc = [t \in Callers |-> "idle"]
    /\ wake = [t \in Callers |-> 0]
    /\ calls = <<>>
    /\ callOf = [t \in Callers |-> 0]
    /\ rate_limiter = FALSE
    /\ advanced_mode = FALSE
    /\ cache = [k \in CacheKeys |-> NoEntry]
    /\ cache_lock = FALSE
    /\ session_closed = FALSE
    /\ op = [t \in Callers |-> NoOp]
    /\ debited = [t \in Callers |-> 0]
    /\ sends = [t \in Callers |-> 0]
    /\ close_returned = FALSE
    /\ started = 0
    /\ ev = NoBlock("init")
    /\ http_error_kw = FALSE
    /\ done = NoOperation
    /\ config = DefaultConfig
    /\ builder = NoBuilder

\* get(path, params=params, use_cache=uc) from call to return.
KeyedGet(path, params, uc, out) ==
    /\ started < MaxGets
    /\ started' = started + 1
    /\ WholeGet([verb |-> "GET", key |-> cache_key(path, params), path |-> path,
                 params |-> params, use_cache |-> uc, advanced |-> FALSE,
                 not_json |-> FALSE],
                out, [done EXCEPT !.prev = "none"])
    /\ UNCHANGED wholeFrame

NextKeys ==
    \E path \in Paths, params \in Dicts, uc \in BOOLEAN, out \in StoredResponses :
        KeyedGet(path, params, uc, out)

SpecKeys == InitKeys /\ [][NextKeys]_vars

\* ------------------------------ SpecErrors: raise_for_status and error bodies
\* JSON values where the code reads a string: a missing key, a string, or a
\* value that is no string (a number).
Absent == [tag |-> "absent", text |-> ""]
Str(t) == [tag |-> "string", text |-> t]
NotAString == [tag |-> "number", text |-> ""]

\* The elements of an "errors" list: a dict with or without "message", or a
\* plain string.
ErrorElements ==
    {[tag |-> "dict", message |-> m, text |-> ""] : m \in {Absent, Str("detail")}}
        \cup {[tag |-> "string", message |-> Absent, text |-> "plain"]}

SeqsUpTo(S, n) == UNION {[1..k -> S] : k \in 0..n}

\* The values of "errors": missing, a dict, a list, or a string.
NoErrors == [tag |-> "absent", message |-> Absent, items |-> <<>>]
ErrorsValues ==
    {NoErrors}
        \cup {[tag |-> "dict", message |-> m, items |-> <<>>] :
                m \in {Absent, Str("detail"), NotAString}}
        \cup {[tag |-> "list", message |-> Absent, items |-> l] :
                l \in SeqsUpTo(ErrorElements, MaxErrors)}
        \cup {[tag |-> "string", message |-> Str("oops"), items |-> <<>>]}

\* The values of "errorMessages": missing or a list of strings.
NoErrorMessages == [tag |-> "absent", items |-> <<>>]
ErrorMessagesValues ==
    {NoErrorMessages}
        \cup {[tag |-> "list", items |-> l] :
                l \in {<<>>, <<"bad thing">>, <<"bad thing", "worse">>}}

\* Response bodies: a JSON object with these two keys, or no object.
JsonObjects ==
    [kind : {"object"}, errorMessages : ErrorMessagesValues, errors : ErrorsValues]
NotObject(kind) == [kind |-> kind, errorMessages |-> NoErrorMessages, errors |-> NoErrors]
ErrorBodies == JsonObjects \cup {NotObject("empty"), NotObject("text"), NotObject("list")}

ErrorResponses ==
    {r \in [status : AllStatuses, ctype : AllContentTypes, body : ErrorBodies] :
        r.status = 401 \/ r.ctype = JsonUtf8}

\* errors.get("message", "") (lines 177, 179).
MessageOf(m) == IF m.tag = "absent" THEN Str("") ELSE m

\* Line 179: v.get("message", "") if isinstance(v, dict) else v.
ListElement(e) == IF e.tag = "dict" THEN MessageOf(e.message) ELSE Str(e.text)

Strs(l) == [i \in DOMAIN l |-> Str(l[i])]

\* Puts the message of errors before the errorMessages.
ErrorMsgListErrorsFirst(j) ==
    IF j.errors.tag \in {"absent", "dict"}
    THEN <<MessageOf(j.errors.message)>> \o Strs(j.errorMessages.items)
    ELSE IF j.errors.tag = "list"
         THEN [i \in DOMAIN j.errors.items |-> ListElement(j.errors.items[i])]
                \o Strs(j.errorMessages.items)
         ELSE Strs(j.errorMessages.items)

\* Lines 174-179: error_msg_list.  A missing "errorMessages" is an empty list
\* and a missing "errors" an empty dict.
ErrorMsgList(j) ==
    IF j.errors.tag \in {"absent", "dict"}
    THEN Append(Strs(j.errorMessages.items), MessageOf(j.errors.message))
    ELSE IF j.errors.tag = "list"
         THEN Strs(j.errorMessages.items)
                \o [i \in DOMAIN j.errors.items |-> ListElement(j.errors.items[i])]
         ELSE Strs(j.errorMessages.items)

\* Line 172: k + ": " + v for each key of the body; the sum raises TypeError
\* for a value that is no string.
AtlassianLines(j) ==
    (IF j.errorMessages.tag = "absent" THEN <<>> ELSE <<NotAString>>)
        \o (IF j.errors.tag = "absent" THEN <<>>
            ELSE IF j.errors.tag = "string"
                 THEN <<Str("errors: " \o j.errors.message.text)>>
                 ELSE <<NotAString>>)

\* Lines 171-179: the list that line 172 or 180 joins.
ExtractedList(j) ==
    IF config.url = AtlassianUrl THEN AtlassianLines(j) ELSE ErrorMsgList(j)

\* sep.join(l) for a list of strings.
RECURSIVE Join(_, _)
Join(l, sep) ==
    IF Len(l) = 0 THEN ""
    ELSE IF Len(l) = 1 THEN l[1].text
    ELSE l[1].text \o sep \o Join(Tail(l), sep)

\* Lines 170-180 raise: response.json() fails, the body is no dict, or an
\* element to join is no string.
ExtractionRaises(body) ==
    \/ body.kind # "object"
    \/ \E i \in DOMAIN ExtractedList(body) : ExtractedList(body)[i].tag # "string"

\* The body as raise_for_status tells bodies apart: empty, text, JSON on which
\* extraction raises, JSON whose message is extracted.
BodyClass(body) ==
    IF body.kind \in {"empty", "text"} THEN body.kind
    ELSE IF ExtractionRaises(body) THEN "[1]"
    ELSE "A"

\* raise_for_status (lines 164-186) with the message of the error it raises:
\* the extracted one for line 186, none for the status error of line 183.
RaiseForStatusMessage(resp) ==
    LET what == RaiseForStatus([status |-> resp.status, ctype |-> resp.ctype,
                                body |-> BodyClass(resp.body)])
    IN  [kind |-> IF what = "ok" THEN "returned" ELSE "raised",
         val |-> what,
         status |-> 0,
         message |-> IF what = "HTTPError" THEN Join(ExtractedList(resp.body), "\n")
                     ELSE IF what = "Unauthorized" THEN "Unauthorized (401)"
                     ELSE ""]

\* The constructor on either host, under either kind of httpx.
InitErrors ==
    /\ now = 0
    /\ capacity = 1
    /\ interval = 1
    /\ tokens = capacity * interval
    /\ last_check = 0
    /\ pc = [t \in Callers |-> "idle"]
    /\ wake = [t \in Callers |-> 0]
    /\ calls = <<>>
    /\ callOf = [t \in Callers |-> 0]
    /\ rate_limiter = FALSE
    /\ advanced_mode = FALSE
    /\ cache = [k \in Keys |-> NoEntry]
    /\ cache_lock = FALSE
    /\ session_closed = FALSE
    /\ op = [t \in Callers |-> NoOp]
    /\ debited = [t \in Callers |-> 0]
    /\ sends = [t \in Callers |-> 0]
    /\ close_returned = FALSE
    /\ started = 0
    /\ ev = NoBlock("init")
    /\ http_error_kw \in BOOLEAN
    /\ done = NoOperation
    /\ \E u \in Urls : config = [DefaultConfig EXCEPT !.url = u]
    /\ builder = NoBuilder

\* self.raise_for_status(response), line 245.
ApplyRaiseForStatus(resp) ==
    /\ started < MaxWhole
    /\ started' = started + 1
    /\ done' = Operation([NoOp EXCEPT !.verb = "raise_for_status"], resp,
                         RaiseForStatusMessage(resp), FALSE, FALSE, "none")
    /\ UNCHANGED <<cache, wholeFrame>>

NextErrors == \E resp \in ErrorResponses : ApplyRaiseForStatus(resp)

SpecErrors == InitErrors /\ [][NextErrors]_vars

\* ------------------------------------ SpecInit: construction and initialize
\* The credentials a caller may pass to the constructor.
Credentials == {"username", "password", "token", "oauth", "oauth2", "kerberos",
                "cookies"}
Classes == {"AsyncAtlasRestAPI", "AsyncInsight"}

\* result["values"][0]["workspaceId"] of the discovery response.
WorkspaceIds == {"W1", "W2"}

\* The branch the chain of lines 95-106 takes for the credentials supplied.
Selected(args) ==
    IF {"username", "password"} \subseteq args THEN "basic"
    ELSE IF "token" \in args THEN "token"
    ELSE IF "oauth" \in args THEN "oauth"
    ELSE IF "oauth2" \in args THEN "oauth2"
    ELSE IF "kerberos" \in args THEN "kerberos"
    ELSE IF "cookies" \in args THEN "cookies"
    ELSE "none"

\* The branches whose method the class defines (lines 114-118) or that call
\* the transport directly (line 106).
DefinedSessions == {"basic", "token", "cookies", "none"}

\* self.cloud after construction: line 78 assigns the constructor's own
\* parameter, which AsyncInsight.__init__ has popped from kwargs (line 33)
\* before it calls super().__init__.
CloudAfterInit(cls, cloud_arg) == cls = "AsyncAtlasRestAPI" /\ cloud_arg

\* api_root of __cloud_init (line 61).
CloudApiRoot(w) == "/jsm/insight/workspace/" \o w \o "/v1/"

\* A caller is about to construct a client of either class with any
\* combination of credentials and of cloud.
InitSetup ==
    /\ now = 0
    /\ capacity = 1
    /\ interval = 1
    /\ tokens = capacity * interval
    /\ last_check = 0
    /\ pc = [t \in Callers |-> "idle"]
    /\ wake = [t \in Callers |-> 0]
    /\ calls = <<>>
    /\ callOf = [t \in Callers |-> 0]
    /\ rate_limiter = FALSE
    /\ advanced_mode = FALSE
    /\ cache = [k \in Keys |-> NoEntry]
    /\ cache_lock = FALSE
    /\ session_closed = FALSE
    /\ op = [t \in Callers |-> NoOp]
    /\ debited = [t \in Callers |-> 0]
    /\ sends = [t \in Callers |-> 0]
    /\ close_returned = FALSE
    /\ started = 0
    /\ ev = NoBlock("init")
    /\ http_error_kw = FALSE
    /\ done = NoOperation
    /\ \E c \in Classes, a \in SUBSET Credentials, ca \in BOOLEAN :
            config = [DefaultConfig EXCEPT !.phase = "calling", !.cls = c,
                                           !.args = a, !.cloud_arg = ca]
    /\ builder = NoBuilder

\* What construction and initialize() leave alone.
setupFrame == <<now, limiterVars, pc, wake, historyRL, rate_limiter, advanced_mode,
                cache, cache_lock, session_closed, op, debited, sends,
                close_returned, started, ev, http_error_kw, done, builder>>

\* AsyncAtlasRestAPI.__init__ (lines 46-106), reached directly or through
\* AsyncInsight.__init__ (aio_insight.py lines 22-46).  A branch whose method
\* does not exist raises AttributeError and no client is returned.
Construct ==
    /\ config.phase = "calling"
    /\ LET s == Selected(config.args)
       IN  IF s \notin DefinedSessions
           THEN config' = [config EXCEPT !.phase = "AttributeError"]
           ELSE config' =
                    [config EXCEPT
                        !.phase = "constructed",
                        !.api_root = IF config.cls = "AsyncInsight"
                                     THEN "rest/insight/1.0" ELSE "rest/api",
                        !.cloud = CloudAfterInit(config.cls, config.cloud_arg),
                        !.auth = IF s = "basic" THEN "basic" ELSE "none",
                        !.bearer = (s = "token"),
                        !.jar = (s = "cookies"),
                        !.handed = IF s = "none" THEN {} ELSE {s}]
    /\ UNCHANGED setupFrame

\* AsyncInsight.initialize (aio_insight.py lines 48-77) from call to return,
\* the discovery GET answered with workspace id w.
Initialize(w) ==
    /\ config.phase = "constructed"
    /\ config.cls = "AsyncInsight"
    /\ IF config.cloud
       THEN config' = [config EXCEPT !.phase = "initialized",
                                     !.gets = @ + 1,
                                     !.workspace = w,
                                     !.api_root = CloudApiRoot(w),
                                     !.url = AtlassianUrl,
                                     !.default_headers = {"Accept"}]
       ELSE config' = [config EXCEPT !.phase = "initialized"]
    /\ UNCHANGED setupFrame

NextSetup ==
    \/ Construct
    \/ \E w \in WorkspaceIds : Initialize(w)

SpecInit == InitSetup /\ [][NextSetup]_vars

\* ------------------------------------------- SpecUrl: the URL of request()
\* A URL is the sequence of its pieces: texts and the separators "/", "?", "&".
BaseUrls == {<<"https://jira.example.com">>, <<"https://jira.example.com", "/">>}
UrlPaths == {<<"x">>, <<"/", "x">>, <<"x", "?", "q=1">>, <<"/", "x", "?", "q=1">>}

\* params: None, or a dict in its insertion order; a value may need quoting.
UrlNames == {"a", "b"}
UrlValues == {"1", "p q"}
ParamLists ==
    {l \in SeqsUpTo(UrlNames \X UrlValues, MaxParams) :
        \A i, j \in DOMAIN l : i # j => l[i][1] # l[j][1]}
UrlParams == {[given |-> FALSE, items |-> <<>>]}
                \cup {[given |-> TRUE, items |-> l] : l \in ParamLists}

\* flags: None, or a list of literal fragments.
UrlFlags == {[given |-> FALSE, items |-> <<>>]}
                \cup {[given |-> TRUE, items |-> l] : l \in SeqsUpTo({"f", "g"}, MaxFlags)}

\* `if params`, `if flags`: None and the empty collection are both false.
Truthy(c) == c.given /\ Len(c.items) > 0

\* str(s).strip("/")
RECURSIVE StripLeft(_)
StripLeft(u) == IF u # <<>> /\ Head(u) = "/" THEN StripLeft(Tail(u)) ELSE u
RECURSIVE StripRight(_)
StripRight(u) ==
    IF u # <<>> /\ u[Len(u)] = "/" THEN StripRight(SubSeq(u, 1, Len(u) - 1)) ELSE u
Strip(u) == StripRight(StripLeft(u))

\* sep.join(l) on pieces.
RECURSIVE JoinPieces(_, _)
JoinPieces(l, sep) ==
    IF Len(l) = 0 THEN <<>>
    ELSE IF Len(l) = 1 THEN <<l[1]>>
    ELSE <<l[1], sep>> \o JoinPieces(Tail(l), sep)

\* url_joiner (lines 157-162); absolute drops self.url (line 202).
url_joiner(url, path, absolute, trailing) ==
    (IF absolute THEN Strip(path) ELSE Strip(url) \o <<"/">> \o Strip(path))
        \o (IF trailing THEN <<"/">> ELSE <<>>)

\* quote_plus on a value.
Quote(v) == IF v = "p q" THEN "p+q" ELSE v

\* urlencode(params): name=value pairs joined by "&".
urlencode(items) ==
    JoinPieces([i \in DOMAIN items |-> items[i][1] \o "=" \o Quote(items[i][2])], "&")

\* Lines 202-210: the URL handed to the transport.
RequestUrl(base, path, absolute, trailing, params, flags) ==
    LET url == url_joiner(base, path, absolute, trailing)
        params_already_in_url == \E i \in DOMAIN url : url[i] = "?"
        u1 == IF Truthy(params) \/ Truthy(flags)
              THEN Append(url, IF params_already_in_url THEN "&" ELSE "?")
              ELSE url
        u2 == IF Truthy(params) THEN u1 \o urlencode(params.items) ELSE u1
    IN  IF Truthy(flags)
        THEN u2 \o (IF Truthy(params) \/ params_already_in_url THEN <<"&">> ELSE <<>>)
                \o JoinPieces(flags.items, "&")
        ELSE u2

\* Whole operations so far are none; the client is constructed.
InitUrl ==
    /\ now = 0
    /\ capacity = 1
    /\ interval = 1
    /\ tokens = capacity * interval
    /\ last_check = 0
    /\ pc = [t \in Callers |-> "idle"]
    /\ wake = [t \in Callers |-> 0]
    /\ calls = <<>>
    /\ callOf = [t \in Callers |-> 0]
    /\ rate_limiter = FALSE
    /\ advanced_mode = FALSE
    /\ cache = [k \in Keys |-> NoEntry]
    /\ cache_lock = FALSE
    /\ session_closed = FALSE
    /\ op = [t \in Callers |-> NoOp]
    /\ debited = [t \in Callers |-> 0]
    /\ sends = [t \in Callers |-> 0]
    /\ close_returned = FALSE
    /\ started = 0
    /\ ev = NoBlock("init")
    /\ http_error_kw = FALSE
    /\ done = NoOperation
    /\ config = DefaultConfig
    /\ builder = NoBuilder

\* request() builds its URL (lines 202-210) on a client whose self.url is base.
BuildUrl(base, path, absolute, trailing, params, flags) ==
    /\ started < MaxWhole
    /\ started' = started + 1
    /\ done' = Operation([verb |-> "request", base |-> base, path |-> path,
                          absolute |-> absolute, trailing |-> trailing,
                          params |-> params, flags |-> flags],
                         NoResponse,
                         [kind |-> "url", status |-> 0,
                          val |-> RequestUrl(base, path, absolute, trailing, params,
                                             flags)],
                         FALSE, FALSE, "none")
    /\ UNCHANGED <<cache, wholeFrame>>

NextUrl ==
    \E base \in BaseUrls, path \in UrlPaths, absolute \in BOOLEAN, trailing \in BOOLEAN,
       params \in UrlParams, flags \in UrlFlags :
            BuildUrl(base, path, absolute, trailing, params, flags)

SpecUrl == InitUrl /\ [][NextUrl]_vars

\* --------------------------------- SpecGraph: graph_builder.SchemaBuilder
\* An object-type record: id, name, parentObjectTypeId (0 for none), position.
\* Ids are the places in the list; MissingId is an id that no record has.
NodeNames == {"A", "B"}
NoParent == 0
MissingId == MaxRecords + 1
ObjectTypeLists ==
    UNION {{l \in [1..n -> [id : 1..n, name : NodeNames,
                            parent : 0..MissingId, position : 0..MaxPosition]] :
                \A i \in 1..n : l[i].id = i} : n \in 0..MaxRecords}

\* The depth at which the interpreter raises RecursionError, scaled to the
\* inputs: deeper than any recursion of process_node that ends.
RecursionLimit == 2 * MaxRecords

\* Lines 58-59: the node is a root.
IsRoot(l, i) == l[i].parent = NoParent \/ l[i].parent \notin DOMAIN l

\* Lines 61, 65-66: node['parent_name'], "" for None.
ParentName(l, i) == IF IsRoot(l, i) THEN "" ELSE l[l[i].parent].name

\* Line 53: name_to_node[name] is the last node stored under the name.
NameToNode(l, name) ==
    CHOOSE i \in DOMAIN l :
        /\ l[i].name = name
        /\ \A j \in DOMAIN l : l[j].name = name => j <= i

\* The nodes of a set in the order of self.nodes (the order of the input).
RECURSIVE InOrder(_, _, _)
InOrder(l, S, i) ==
    IF i > Len(l) THEN <<>>
    ELSE (IF i \in S THEN <<i>> ELSE <<>>) \o InOrder(l, S, i + 1)

\* sorted(..., key=position) and list.sort: stable, ascending.
RECURSIVE SortByPosition(_, _, _)
SortByPosition(l, nodes, p) ==
    IF p > MaxPosition THEN <<>>
    ELSE SelectSeq(nodes, LAMBDA i : l[i].position = p) \o SortByPosition(l, nodes, p + 1)

\* Lines 60, 71: self.root_nodes.
RootNodes(l) == SortByPosition(l, InOrder(l, {i \in DOMAIN l : IsRoot(l, i)}, 1), 0)

\* Line 67: self.children[name], keyed by the parent's name.
Children(l, name) == InOrder(l, {i \in DOMAIN l : ParentName(l, i) = name}, 1)

\* process_node (lines 79-97) at recursion depth `depth`, and the loops that
\* call it for each node of a list (lines 96-97, 100-101); an error unwinds
\* every frame.
RECURSIVE process_node(_, _, _, _)
RECURSIVE ProcessEach(_, _, _, _)
process_node(l, i, st, depth) ==
    IF st.error THEN st
    ELSE IF depth > RecursionLimit THEN [st EXCEPT !.error = TRUE]
    ELSE IF l[i].name \in st.processed THEN st
    ELSE LET s1 == IF ParentName(l, i) # ""
                   THEN process_node(l, NameToNode(l, ParentName(l, i)), st, depth + 1)
                   ELSE st
         IN  IF s1.error THEN s1
             ELSE ProcessEach(l, SortByPosition(l, Children(l, l[i].name), 0),
                              [s1 EXCEPT !.processed = @ \cup {l[i].name},
                                         !.ordered = Append(@, i)],
                              depth + 1)
ProcessEach(l, nodes, st, depth) ==
    IF nodes = <<>> \/ st.error THEN st
    ELSE ProcessEach(l, Tail(nodes), process_node(l, Head(nodes), st, depth), depth)

\* Lines 104-106: the nodes whose name is still unprocessed, in input order.
RECURSIVE ProcessRemaining(_, _, _)
ProcessRemaining(l, i, st) ==
    IF i > Len(l) \/ st.error THEN st
    ELSE ProcessRemaining(l, i + 1,
                          IF l[i].name \in st.processed THEN st
                          ELSE process_node(l, i, st, 1))

\* get_creation_order (lines 74-109): the ids in creation order, or the error.
get_creation_order(l) ==
    ProcessRemaining(l, 1,
        ProcessEach(l, RootNodes(l), [processed |-> {}, ordered |-> <<>>, error |-> FALSE],
                    1))

\* A caller is about to hand a list of records to create_schema_structure.
InitGraph ==
    /\ now = 0
    /\ capacity = 1
    /\ interval = 1
    /\ tokens = capacity * interval
    /\ last_check = 0
    /\ pc = [t \in Callers |-> "idle"]
    /\ wake = [t \in Callers |-> 0]
    /\ calls = <<>>
    /\ callOf = [t \in Callers |-> 0]
    /\ rate_limiter = FALSE
    /\ advanced_mode = FALSE
    /\ cache = [k \in Keys |-> NoEntry]
    /\ cache_lock = FALSE
    /\ session_closed = FALSE
    /\ op = [t \in Callers |-> NoOp]
    /\ debited = [t \in Callers |-> 0]
    /\ sends = [t \in Callers |-> 0]
    /\ close_returned = FALSE
    /\ started = 0
    /\ ev = NoBlock("init")
    /\ http_error_kw = FALSE
    /\ done = NoOperation
    /\ config = DefaultConfig
    /\ \E l \in ObjectTypeLists :
            builder = [pc |-> "calling", object_types |-> l, ordered |-> <<>>]

\* create_schema_structure (lines 111-117): SchemaBuilder(object_types) and
\* get_creation_order(), from call to return or raise.
CreateSchemaStructure ==
    /\ builder.pc = "calling"
    /\ LET st == get_creation_order(builder.object_types)
       IN  builder' = [builder EXCEPT
                          !.pc = IF st.error THEN "RecursionError" ELSE "returned",
                          !.ordered = IF st.error THEN <<>> ELSE st.ordered]
    /\ UNCHANGED <<now, limiterVars, pc, wake, historyRL, rate_limiter, advanced_mode,
                   cache, cache_lock, session_closed, op, debited, sends,
                   close_returned, started, ev, http_error_kw, done, config>>

NextGraph == CreateSchemaStructure

SpecGraph == InitGraph /\ [][NextGraph]_vars

\* ------------------------------------------------------ RateLimiter claims
Positive == capacity > 0 /\ interval > 0

Returned == {i \in 1..Len(calls) : calls[i].returned}

\* The calls that returned in the closed window from the return of call i to
\* the return of call j.
GrantsBetween(i, j) ==
    {k \in Returned : calls[i].end <= calls[k].end /\ calls[k].end <= calls[j].end}

\* C1: with capacity C > 0 and interval T > 0 the number of get_token() calls
\* that return in any time window of length W never exceeds C + W*C/T.  A
\* window of W ticks lasts W/C seconds, so the bound is C + W/T; both sides are
\* multiplied by T.
C1_RateBound ==
    Positive =>
        \A i, j \in Returned :
            calls[i].end <= calls[j].end =>
                Cardinality(GrantsBetween(i, j)) * interval
                    <= capacity * interval + (calls[j].end - calls[i].end)

\* C2: in every reachable state of the limiter 0 <= tokens <= capacity.
C2_TokensInRange == 0 <= tokens /\ tokens <= capacity * OneToken

\* C3: for capacity > 0 and interval > 0 every get_token() call eventually
\* returns and never raises; it suspends at most once, for a finite time, and
\* then debits exactly one token.
C3_GetTokenReturns ==
    /\ [](Positive =>
            \A i \in 1..Len(calls) :
                /\ ~calls[i].raised
                /\ calls[i].suspensions <= 1
                /\ calls[i].sleep \in Nat
                /\ calls[i].debited = (IF calls[i].returned THEN OneToken ELSE 0))
    /\ \A t \in Tasks : (pc[t] = "sleeping") ~> (pc[t] = "idle")

C3_Witness ==
    /\ Positive
    /\ \E i \in Returned : calls[i].suspensions = 1 /\ calls[i].debited = OneToken
    /\ \E i \in Returned : calls[i].suspensions = 0

\* The first k calls were made at one instant, with no time between them.
BackToBack(k) == \A i \in 1..k : calls[i].start = calls[1].start

\* C4: on a fresh limiter with integer capacity C >= 1, C back-to-back calls
\* return without suspending and leave tokens <= 0, and call C+1 suspends for
\* interval/capacity seconds, which is `interval` ticks (capacity 2, interval 1:
\* two immediate grants, then a suspension of one tick of half a second).
C4_BurstThenWait ==
    Positive =>
        \A k \in 1..Len(calls) :
            BackToBack(k) =>
                /\ k <= capacity =>
                        /\ calls[k].suspensions = 0
                        /\ calls[k].returned
                        /\ calls[k].end = calls[k].start
                /\ k = capacity => calls[k].after <= 0
                /\ k = capacity + 1 =>
                        /\ calls[k].suspensions = 1
                        /\ calls[k].sleep = interval
                        /\ calls[k].returned => calls[k].end >= calls[k].start + interval

C4_Witness ==
    /\ capacity = 2 /\ interval = 1
    /\ Len(calls) >= 3
    /\ BackToBack(3)
    /\ calls[3].sleep = 1
    /\ calls[3].returned

\* ----------------------------------------------------------- client claims
\* The operation whose block ran last is still suspended in the limiter.
StillSleeping == \E t \in Callers : pc[t] = "sleeping" /\ op[t] = ev.op

\* C5: on a client with a rate limiter every transport call of get (on a cache
\* miss), post, put, patch and delete comes after a completed get_token() of
\* the same operation that debited exactly one token; on a client without a
\* limiter no operation suspends on the limiter or changes its state.
C5_TokenBeforeTransport ==
    /\ rate_limiter =>
        /\ \A t \in Callers :
                pc[t] = "transport" => debited[t] = OneToken /\ sends[t] = 1
        /\ ev.sends >= 1 => ev.debited = OneToken
    /\ ~rate_limiter =>
        /\ tokens = capacity * interval
        /\ last_check = 0
        /\ \A t \in Callers : pc[t] # "sleeping" /\ debited[t] = 0
        /\ ev.debited = 0

C5_Witness ==
    /\ rate_limiter
    /\ ev.step = "wake"
    /\ ev.result = Pending
    /\ ev.debited = OneToken
    /\ \E t \in Callers : pc[t] = "transport" /\ op[t] = ev.op /\ op[t].verb # "GET"

\* C6: a get() served from the cache makes no transport call and does not call
\* the rate limiter: tokens and last_check are as they were before it.
C6_HitLeavesLimiter ==
    [][ev'.step = "hit" =>
            /\ tokens' = tokens
            /\ last_check' = last_check
            /\ wake' = wake
            /\ pc' = pc
            /\ sends' = sends
            /\ ev'.sends = 0
            /\ ev'.debited = 0]_vars

C6_Witness ==
    /\ rate_limiter
    /\ ev.step = "hit"
    /\ tokens < OneToken

\* C7: get() returns a cached value only when the entry's age is strictly less
\* than cache_expiry_time: with use_cache a fresh entry for the key is returned
\* as it was stored, and an absent entry or one of age >= cache_expiry_time is
\* a miss that goes to the transport.
C7_FreshOnly ==
    /\ ev.step = "hit" =>
        /\ ev.op.use_cache
        /\ cache[ev.op.key] # NoEntry
        /\ now - cache[ev.op.key].stored_at < Expiry
        /\ ev.result = [kind |-> "cached", val |-> cache[ev.op.key].payload, status |-> 0]
    /\ (ev.step = "call" /\ ev.op.verb = "GET" /\ ev.op.use_cache) =>
        /\ \/ cache[ev.op.key] = NoEntry
           \/ now - cache[ev.op.key].stored_at >= Expiry
        /\ ev.sends = 1 \/ StillSleeping

C7_Witness ==
    /\ ev.step = "hit"
    /\ now - cache[ev.op.key].stored_at = Expiry - 1

\* The tasks inside the transport call of a normal-mode get() for key k that
\* uses the cache.
InFlightGets(k) ==
    {t \in Callers : /\ pc[t] = "transport"
                     /\ op[t].verb = "GET"
                     /\ op[t].key = k
                     /\ op[t].use_cache
                     /\ ~op[t].advanced
                     /\ ~op[t].not_json
                     /\ ~advanced_mode}

\* C8: tasks that concurrently call get() with the same key and use_cache=True
\* while the cache holds no fresh entry for it cause at most one transport call.
C8_SingleFlight == \A k \in Keys : Cardinality(InFlightGets(k)) <= 1

\* C9: every cache read and write of get() and the clear of close() run while
\* cache_lock is held.
C9_CacheAccessLocked == ev.access # "none" => ev.locked

\* C10: once close() has returned the cache is empty, also when a get() was in
\* flight when close() was called.
C10_EmptyAfterClose == close_returned => \A k \in Keys : cache[k] = NoEntry

\* C11: when the cache write of get() (line 302) races with the clear of
\* close() (line 123), the key's entry is either absent or a complete
\* (payload, timestamp) pair: in every reachable state every entry is complete,
\* and a get() served from the cache returns a whole stored payload.
C11_EntriesComplete ==
    /\ \A k \in Keys :
            \/ cache[k] = NoEntry
            \/ cache[k].payload \in Payloads /\ cache[k].stored_at \in 0..now
    /\ ev.step = "hit" => ev.result.val \in Payloads

\* A get() stored its response while a close() that had cleared the cache was
\* still waiting for aclose().
C11_Witness ==
    /\ ev.step = "return"
    /\ ev.access = "write"
    /\ \E t \in Callers : pc[t] = "closing"
    /\ cache[ev.op.key].payload \in Payloads

\* C12: with advanced mode on, as the client's default or as the argument of
\* the call, get() never returns a cached value, also when a fresh entry exists
\* for its key: what it returns is the raw response of its own transport call,
\* and it never writes the cache.
C12_AdvancedBypassesCache ==
    (ev.op.verb = "GET" /\ (ev.op.advanced \/ advanced_mode)) =>
        /\ ev.step # "hit"
        /\ ev.access # "write"
        /\ ev.result.kind \in {"pending", "raw", "raised"}

\* C13: post, put, patch and delete never read and never write the cache: no
\* block of theirs changes it or looks into it, whether they return or raise,
\* and also while GET results are cached.
C13_VerbsLeaveCache ==
    [][ev'.op.verb \in Verbs \ {"GET"} =>
            /\ cache' = cache
            /\ ev'.access = "none"]_vars

C13_Witness ==
    /\ ev.step = "return"
    /\ ev.op.verb = "DELETE"
    /\ ev.result.kind = "json"
    /\ \E k \in Keys : cache[k] # NoEntry

\* C14: a get() with use_cache=False neither consults nor fills the cache: it
\* is never served from the cache, it goes to the transport (after the
\* limiter's wait, if any) also when a fresh entry exists for its key, and it
\* leaves the cache as it was whatever the response is.
C14_NoCacheWithoutUseCache ==
    [][(ev'.op.verb = "GET" /\ ~ev'.op.use_cache) =>
            /\ cache' = cache
            /\ ev'.step # "hit"
            /\ ev'.access = "none"
            /\ ev'.step = "call" => (ev'.sends = 1 \/ StillSleeping')]_vars

\* A get() with use_cache=False returned a parsed response while the cache
\* held a fresh entry with another payload for its key, and the entry stayed.
C14_Witness ==
    /\ ev.step = "return"
    /\ ev.op.verb = "GET"
    /\ ~ev.op.use_cache
    /\ ev.result.kind = "json"
    /\ CacheHit(TRUE, cache[ev.op.key])
    /\ cache[ev.op.key].payload # ev.result.val

\* C15: an entry is added or replaced only by a get() with use_cache=True, in
\* non-advanced and non-raw-bytes mode, that did not raise and whose non-empty
\* body parsed as JSON; the entry is the parsed body with the current time.
\* Operations that raise or that return null, text, raw bytes or the raw
\* response store nothing.
C15_OnlyParsedGetsWrite ==
    [][\A k \in Keys :
            (cache'[k] # cache[k] /\ cache'[k] # NoEntry) =>
                /\ ev'.step = "return"
                /\ ev'.op.verb = "GET"
                /\ ev'.op.key = k
                /\ ev'.op.use_cache
                /\ ~ev'.op.advanced
                /\ ~advanced_mode
                /\ ~ev'.op.not_json
                /\ ev'.result.kind = "json"
                /\ ev'.result.val \in Payloads
                /\ cache'[k] = Entry(ev'.result.val, now)]_vars

\* A get() stored its parsed response after time had passed.
C15_Witness ==
    /\ ev.step = "return"
    /\ ev.access = "write"
    /\ ev.result.kind = "json"
    /\ cache[ev.op.key] = Entry(ev.result.val, now)
    /\ now > 0
    /\ \A t \in Callers : pc[t] = "idle"

\* ------------------------------------------------- response-handling claims
\* The last whole operation was the verb v, called the transport and got a
\* response, in normal mode: advanced mode off in the client and in the call.
NormalResponse(v) ==
    /\ done.op.verb = v
    /\ ~done.hit
    /\ done.response \in AllResponses
    /\ ~advanced_mode
    /\ ~done.op.advanced

Null == [kind |-> "null", val |-> "none", status |-> 0]
Parsed(body) == [kind |-> "json", val |-> body, status |-> 0]
Text(body) == [kind |-> "text", val |-> body, status |-> 0]

\* What the caller gets for a body: null for an empty one, the parsed value for
\* JSON, the text for a non-empty body that is not JSON.
BodyRule ==
    /\ done.response.body = "empty" => done.result = Null
    /\ ParsesAsJson(done.response.body) => done.result = Parsed(done.response.body)
    /\ done.response.body = "text" => done.result = Text(done.response.body)

\* C16: a get() that misses the cache and gets a successful response (status
\* below 400) in normal mode, without not_json_response, returns null for an
\* empty body, the parsed value for a JSON body and the raw text for a
\* non-empty body that is not JSON; it raises in none of these cases.
C16_GetBodyRule ==
    (NormalResponse("GET") /\ ~done.op.not_json /\ done.response.status < 400) =>
        BodyRule /\ done.result.kind # "raised"

C16_Witness ==
    /\ NormalResponse("GET")
    /\ ~done.op.not_json
    /\ done.response.status = 399
    /\ done.response.body = "text"
    /\ done.result = Text("text")

\* C17: for every verb (get, post, put, patch, delete) in normal mode a
\* successful response is returned parsed as JSON, an empty body gives null and
\* a non-empty body that is not JSON is returned as text.
C17_EveryVerbBodyRule ==
    \A v \in Verbs :
        (NormalResponse(v) /\ ~done.op.not_json /\ done.response.status < 400) =>
            BodyRule

\* C19: in non-advanced mode no operation returns normally for a response with
\* a status in [400, 600): get, post, put, patch and delete raise for every
\* such status, Content-Type and body (JSON object, other JSON, not JSON,
\* empty).
C19_ErrorStatusRaises ==
    \A v \in Verbs :
        (NormalResponse(v) /\ 400 <= done.response.status /\ done.response.status < 600) =>
            done.result.kind = "raised"

C19_Witness ==
    /\ NormalResponse("GET")
    /\ done.response.status = 599
    /\ done.response.body \in NonObjects
    /\ done.result = Raised("HTTPStatusError")

\* C20: a 401 response whose Content-Type is not
\* application/json;charset=UTF-8, or is absent, is raised as the
\* authentication failure "Unauthorized (401)"; a 401 with that Content-Type
\* goes through the generic 4xx/5xx rule, which reads its JSON body.
C20_UnauthorizedClassified ==
    \A v \in Verbs :
        (NormalResponse(v) /\ done.response.status = 401) =>
            IF done.response.ctype # JsonUtf8
            THEN done.result = Raised("Unauthorized")
            ELSE done.result = Raised(IF done.response.body \in Payloads
                                      THEN "HTTPError" ELSE "HTTPStatusError")

\* --------------------------------------------------------- cache-key claims
\* C18: two get() calls with the same path and the same set of (name, value)
\* query parameters, given in any dictionary orders, use the same cache key:
\* when the first stored its response, the second is served that entry.
C18_KeyIgnoresOrder ==
    (/\ started > 1
     /\ done.prev.wrote
     /\ done.op.use_cache
     /\ done.op.path = done.prev.op.path
     /\ Items(done.op.params) = Items(done.prev.op.params)) =>
        /\ done.op.key = done.prev.op.key
        /\ done.hit
        /\ done.result.val = done.prev.result.val

\* get("/x", {"a": 1, "b": 2}) stored its response and get("/x", {"b": 2, "a": 1})
\* was served from the cache.
C18_Witness ==
    /\ started = 2
    /\ done.prev.wrote
    /\ done.prev.op.path = "/x"
    /\ done.prev.op.params = <<(<<"a", 1>>), (<<"b", 2>>)>>
    /\ done.op.path = "/x"
    /\ done.op.params = <<(<<"b", 2>>), (<<"a", 1>>)>>
    /\ done.hit

\* ------------------------------------------------------ error-body claims
\* raise_for_status ran on a response with a status in [400, 600).
ErrorStatus ==
    /\ done.op.verb = "raise_for_status"
    /\ 400 <= done.response.status
    /\ done.response.status < 600

\* The response is not a 401 that line 165 takes for an authentication failure.
GenericRule == ~(done.response.status = 401 /\ done.response.ctype # JsonUtf8)

\* The body is a JSON object with an errorMessages list and either an errors
\* dict or an errors list, as the claim names them.
NamedFields ==
    /\ done.response.body.kind = "object"
    /\ done.response.body.errorMessages.tag = "list"
    /\ done.response.body.errors.tag \in {"dict", "list"}

\* Every message that is read is there and is a string.
StringMessages ==
    LET e == done.response.body.errors
    IN  /\ e.tag = "dict" => e.message.tag = "string"
        /\ e.tag = "list" =>
                \A i \in DOMAIN e.items :
                    e.items[i].tag = "dict" => e.items[i].message.tag = "string"

\* The errorMessages, then the message of the errors dict or, for an errors
\* list, each element's message or the element itself.
ClaimedMessages ==
    LET b == done.response.body
    IN  Strs(b.errorMessages.items)
            \o (IF b.errors.tag = "dict"
                THEN <<b.errors.message>>
                ELSE [i \in DOMAIN b.errors.items |->
                        IF b.errors.items[i].tag = "dict"
                        THEN b.errors.items[i].message
                        ELSE Str(b.errors.items[i].text)])

BadThingDetail ==
    [kind |-> "object",
     errorMessages |-> [tag |-> "list", items |-> <<"bad thing">>],
     errors |-> [tag |-> "dict", message |-> Str("detail"), items |-> <<>>]]

\* C21 as stated: for every 4xx/5xx response with a JSON object body, on a
\* client whose url is not https://api.atlassian.com, the error raised carries
\* the newline-join of the errorMessages and the errors messages.
C21_MessageOfEveryObject ==
    (ErrorStatus /\ NamedFields /\ config.url # AtlassianUrl) =>
        /\ done.result.val = "HTTPError"
        /\ done.result.message = Join(ClaimedMessages, "\n")

\* C21, amended: the same for a response that is not a 401 with a Content-Type
\* other than application/json;charset=UTF-8, and whose messages are strings;
\* {"errorMessages": ["bad thing"], "errors": {"message": "detail"}} gives
\* "bad thing\ndetail".
C21_MessageOfGenericRule ==
    (ErrorStatus /\ GenericRule /\ NamedFields /\ StringMessages
        /\ config.url # AtlassianUrl) =>
        /\ done.result.val = "HTTPError"
        /\ done.result.message = Join(ClaimedMessages, "\n")
        /\ done.response.body = BadThingDetail =>
                done.result.message = "bad thing\ndetail"

C21_Witness ==
    /\ ErrorStatus
    /\ done.response.status = 500
    /\ config.url # AtlassianUrl
    /\ done.response.body = BadThingDetail
    /\ done.result.message = "bad thing\ndetail"

\* C22 as stated: for every 4xx/5xx response whose body does not parse as JSON,
\* raise_for_status raises the transport's status error, never the error that
\* carries a message.
C22_StatusErrorForEveryUnparsed ==
    (ErrorStatus /\ done.response.body.kind \in {"empty", "text"}) =>
        /\ done.result.val = "HTTPStatusError"
        /\ done.result.message = ""

\* C22, amended: the same for a response that is not a 401 with a Content-Type
\* other than application/json;charset=UTF-8 (that one is raised by line 166,
\* whatever its body).
C22_StatusErrorForUnparsed ==
    (ErrorStatus /\ GenericRule /\ done.response.body.kind \in {"empty", "text"}) =>
        /\ done.result.val = "HTTPStatusError"
        /\ done.result.message = ""

C22_Witness ==
    /\ ErrorStatus
    /\ done.response.status = 401
    /\ done.response.ctype = JsonUtf8
    /\ done.response.body.kind = "text"
    /\ done.result.val = "HTTPStatusError"

\* ------------------------------------------------------ advanced-mode claim
\* The raw response of the transport, its status code uninterpreted.
RawResponse(out) == [kind |-> "raw", val |-> "response", status |-> out.status]

\* C23: with advanced mode on, as the client's default or as the argument of
\* the call, request(), post(), put(), patch() and delete() return the raw
\* response of the transport for every status code, 401 and every status in
\* [400, 600) included: nothing is raised and the body is not parsed.
C23_AdvancedReturnsRaw ==
    /\ \A out \in AllResponses :
            /\ RequestResult(out, TRUE) = RawResponse(out)
            /\ advanced_mode => RequestResult(out, FALSE) = RawResponse(out)
    /\ (/\ done.op.verb \in Verbs \ {"GET"}
        /\ done.op.advanced \/ advanced_mode
        /\ done.response # TransportFailure) =>
            done.result = RawResponse(done.response)

C23_Witness ==
    /\ done.op.verb = "POST"
    /\ done.op.advanced
    /\ ~advanced_mode
    /\ done.response.status = 401
    /\ done.response.ctype # JsonUtf8
    /\ done.result = RawResponse(done.response)

\* ------------------------------------------------------ transport-failure claim
\* C24: one invocation of request() calls the transport at most once.  When
\* the transport call comes back, with a response or with a failure, the
\* operation ends in that block; a failure reaches the caller as the same
\* RequestError, after exactly one transport call.
C24_NoRetry ==
    [][/\ \A t \in Callers :
            /\ sends'[t] <= 1
            /\ (pc[t] = "transport" /\ pc'[t] # "transport") =>
                    /\ pc'[t] = "idle"
                    /\ ev'.step = "return"
                    /\ ev'.sends = 1
            /\ (pc[t] = "transport" /\ pc'[t] = "transport") => sends'[t] = sends[t]
       /\ ev'.sends <= 1
       /\ ev'.result = Raised("RequestError") =>
            /\ ev'.step = "return"
            /\ ev'.sends = 1]_vars

C24_Witness ==
    /\ ev.step = "return"
    /\ ev.op.verb = "POST"
    /\ ev.result = Raised("RequestError")
    /\ ev.sends = 1
    /\ \A t \in Callers : pc[t] # "transport"

\* ------------------------------------------------------ construction claims
\* The schemes bound to the transport: the auth pair, the Bearer header, the
\* cookies merged into the jar, a credential object handed over.
Bound ==
    (IF config.auth = "basic" THEN {"basic"} ELSE {})
        \cup (IF config.bearer THEN {"token"} ELSE {})
        \cup (IF config.jar THEN {"cookies"} ELSE {})
        \cup (config.handed \cap {"oauth", "oauth2", "kerberos"})

\* basic > token > oauth1 > oauth2 > kerberos > cookies > none.
Priority ==
    LET a == config.args
        order == <<"token", "oauth", "oauth2", "kerberos", "cookies">>
        first == {i \in 1..5 : order[i] \in a /\ \A j \in 1..(i - 1) : order[j] \notin a}
    IN  IF "username" \in a /\ "password" \in a THEN "basic"
        ELSE IF first = {} THEN "none"
        ELSE order[CHOOSE i \in first : TRUE]

\* C25: for every combination of credentials, the constructor binds exactly
\* the one scheme that the priority basic > token > oauth1 > oauth2 > kerberos
\* > cookies > none selects, and no other.
C25_OneSchemeByPriority ==
    config.phase # "calling" =>
        Bound = (IF Priority = "none" THEN {} ELSE {Priority})

\* C26: when oauth, oauth2 or kerberos is the highest-priority credential
\* supplied, construction completes and that credential is handed to the
\* transport once.
C26_OpaqueCredentialHanded ==
    (config.phase # "calling" /\ Priority \in {"oauth", "oauth2", "kerberos"}) =>
        /\ config.phase \in {"constructed", "initialized"}
        /\ config.handed = {Priority}

\* C27: for an AsyncInsight client constructed with cloud=True, one call of
\* initialize() issues exactly one GET for the workspace and leaves api_root,
\* url and default_headers re-bound to the cloud.
C27_CloudInitialize ==
    (config.cls = "AsyncInsight" /\ config.cloud_arg /\ config.phase = "initialized") =>
        /\ config.gets = 1
        /\ config.api_root = CloudApiRoot(config.workspace)
        /\ config.url = AtlassianUrl
        /\ config.default_headers = {"Accept"}

\* ------------------------------------------------------ URL claim
\* The fragments to append: the encoded params, then the flags.
Fragments ==
    (IF done.op.params.given
     THEN [i \in DOMAIN done.op.params.items |->
            done.op.params.items[i][1] \o "=" \o Quote(done.op.params.items[i][2])]
     ELSE <<>>)
        \o (IF done.op.flags.given THEN done.op.flags.items ELSE <<>>)

\* C28: whether or not the joined URL already contains '?', with or without
\* params and with or without flags, the URL that request() builds is the
\* joined URL followed, when there is anything to append, by one '?' (no '?'
\* before) or one '&' (a '?' before) and by the fragments, params first, with
\* exactly one '&' between consecutive fragments.
C28_QuerySeparators ==
    done.op.verb = "request" =>
        LET joined == url_joiner(done.op.base, done.op.path, done.op.absolute,
                                 done.op.trailing)
            had == \E i \in DOMAIN joined : joined[i] = "?"
        IN  done.result.val =
                IF Fragments = <<>> THEN joined
                ELSE joined \o <<IF had THEN "&" ELSE "?">> \o JoinPieces(Fragments, "&")

\* ------------------------------------------------------ creation-order claims
\* C29: create_schema_structure terminates for every finite list of records,
\* also when the parent ids form a cycle: the call never ends in the
\* interpreter's RecursionError.
C29_Terminates == builder.pc # "RecursionError"

\* Place of record i in the returned list, 0 when it is not there.
Place(i) ==
    IF \E k \in DOMAIN builder.ordered : builder.ordered[k] = i
    THEN CHOOSE k \in DOMAIN builder.ordered : builder.ordered[k] = i
    ELSE 0

\* C30: in the returned list, every record whose parentObjectTypeId names a
\* record of the input comes after that record.
C30_ParentBeforeChild ==
    builder.pc = "returned" =>
        \A k \in DOMAIN builder.ordered :
            LET parent == builder.object_types[builder.ordered[k]].parent
            IN  parent \in DOMAIN builder.object_types =>
                    (Place(parent) # 0 /\ Place(parent) < k)

\* ------------------------------------------------------ cache-lifetime claims
\* The step is a whole get() of the lone caller.
GetStep == started' = started + 1 /\ done'.op.verb = "GET"

\* The lookup of that get() finds an entry for its key that has expired.
FindsExpired ==
    /\ done'.op.use_cache
    /\ cache[done'.op.key] # NoEntry
    /\ now - cache[done'.op.key].stored_at >= Expiry

\* C31: when get() finds the entry for its key expired, then once it has
\* returned or raised the cache holds for that key no entry or a fresh
\* replacement, never the expired entry.
C31_ExpiredEntryDestroyed ==
    [][(GetStep /\ FindsExpired) =>
            \/ cache'[done'.op.key] = NoEntry
            \/ now - cache'[done'.op.key].stored_at < Expiry]_vars

\* C34: the lookup of get() depends on the key only.  When a fresh entry
\* exists for the key, a get() with use_cache=True is served the stored parsed
\* value without a transport call, whatever its flags, headers, data,
\* absolute, trailing or not_json_response are and whatever they were in the
\* call that stored the entry.
C34_LookupByKeyOnly ==
    [][(/\ GetStep
        /\ done'.op.use_cache
        /\ cache[done'.op.key] # NoEntry
        /\ now - cache[done'.op.key].stored_at < Expiry) =>
            /\ done'.hit
            /\ done'.response = NoResponse
            /\ done'.result = [kind |-> "cached", status |-> 0,
                               val |-> cache[done'.op.key].payload]
            /\ (done.wrote /\ done.op.key = done'.op.key) =>
                    done'.result.val = done.result.val]_vars

\* A caller that asks for raw bytes and passes flags was served the parsed
\* value that an earlier call stored.
C34_Witness ==
    /\ started = 2
    /\ done.hit
    /\ done.op.not_json
    /\ done.op.other = "flags"
    /\ done.result.kind = "cached"
    /\ done.result.val \in Payloads
    /\ now > cache[done.op.key].stored_at

\* C35: a get() that raises, for an authentication failure, an application
\* error, a status error or a transport failure, leaves the cache exactly as
\* it was, an expired entry for its key included.
C35_RaisingGetLeavesCache ==
    [][(GetStep /\ done'.result.kind = "raised") => cache' = cache]_vars

\* A get() found the entry of its key expired and raised; the entry is there.
C35_Witness ==
    /\ done.op.verb = "GET"
    /\ done.op.use_cache
    /\ done.result = Raised("HTTPStatusError")
    /\ cache[done.op.key] # NoEntry
    /\ now - cache[done.op.key].stored_at >= Expiry

\* ------------------------------------------------------ limiter claims, again
\* C32: no get_token() call suspends for longer than interval/capacity
\* seconds, which is `interval` ticks, whatever calls came before it: the
\* deficit at the wait decision never exceeds one token.
C32_SleepAtMostOneToken ==
    Positive => \A i \in 1..Len(calls) : calls[i].sleep <= interval

\* The step starts a get_token() call; the step ends one.
CallStarts == Len(calls') = Len(calls) + 1
CallEnds ==
    \E i \in 1..Len(calls') :
        /\ calls'[i].returned
        /\ i <= Len(calls) => ~calls[i].returned

\* C33: tokens and last_check are written by get_token() only.  last_check is
\* set to the current time once per call, in the step in which the call
\* returns, after the suspension when there is one; the step that suspends
\* leaves it alone, so a call that starts while another is suspended refills
\* from the last_check from before that suspension.
C33_LastCheckAtReturn ==
    [][/\ (tokens' # tokens \/ last_check' # last_check) => calls' # calls
       /\ last_check' # last_check => (CallEnds /\ last_check' = now)
       /\ (CallEnds /\ Positive) => last_check' = now
       /\ (\E t \in Tasks : pc[t] = "idle" /\ pc'[t] = "sleeping") =>
                last_check' = last_check
       /\ (CallStarts /\ Positive) =>
                tokens' \in {Refill(tokens, last_check, now),
                             Debit(Refill(tokens, last_check, now))}]_vars

\* A call started while another was suspended and before the clock that the
\* suspended call read had been written back, and it returned at once.
C33_Witness ==
    \E t \in Tasks :
        /\ pc[t] = "sleeping"
        /\ \E j \in 1..Len(calls) :
                /\ j > callOf[t]
                /\ calls[j].returned
                /\ calls[j].suspensions = 0
                /\ calls[j].start = calls[callOf[t]].start
                /\ calls[j].start > 0

\* C36: on a rate-limited client the token is debited before the transport
\* call and never given back: the block in which an operation returns or
\* raises after its transport call leaves tokens alone, and the operation has
\* debited exactly one token whether it got a response, an error status or a
\* transport failure.
C36_NoRefund ==
    [][ev'.step = "return" =>
            /\ tokens' = tokens
            /\ last_check' = last_check
            /\ ev'.debited = (IF rate_limiter THEN OneToken ELSE 0)]_vars

C36_Witness ==
    /\ rate_limiter
    /\ ev.step = "return"
    /\ ev.result = Raised("RequestError")
    /\ ev.debited = OneToken
    /\ tokens < OneToken

\* C37: for every input list with pairwise distinct ids, the returned list
\* holds each record exactly once: it is as long as the input and has no
\* record twice, also when two records share a name.
C37_EachRecordOnce ==
    builder.pc = "returned" =>
        /\ Len(builder.ordered) = Len(builder.object_types)
        /\ \A i, j \in DOMAIN builder.ordered :
                builder.ordered[i] = builder.ordered[j] => i = j
====
